---- MODULE Spec2Model ----
(***************************************************************************)
(* Order management: the HTTP order handlers, OrderService and the         *)
(* pgx-backed orderRepository, over a PostgreSQL store with the schema     *)
(* orders / order_items (read committed isolation).                        *)
(*                                                                         *)
(* Money is counted in mills (1/1000 of a currency unit): the request      *)
(* carries float64 prices, the columns are DECIMAL(10,2), so the store     *)
(* keeps a value rounded to whole cents (a multiple of 10 mills).          *)
(* A Go error is the sequence of the texts / sentinels of its %w chain;    *)
(* nil is the empty sequence.                                              *)
(***************************************************************************)
EXTENDS Integers, Sequences, FiniteSets, TLC

\* ---------------------------------------------------------------- bounds
NumWorkers == 2
MaxCalls == 3
MaxOrders == 2
MaxItems == 2
MaxTime == 1
MaxId == 2
\* Go's int is 64 bits wide; the model keeps its two's-complement wrap-around
\* at a width the checker can enumerate
IntBits == 6

Workers == 1..NumWorkers
Times == 1..MaxTime

\* ------------------------------------------------------- program values
StatusPending == "pending"
StatusProcessing == "processing"
StatusCompleted == "completed"
StatusCancelled == "cancelled"
Status == {StatusPending, StatusProcessing, StatusCompleted, StatusCancelled}

\* the zero time.Time (a field the code never assigns)
ZeroTime == 0

\* context.Canceled, context.DeadlineExceeded, pgx.ErrNoRows; StoreErr stands
\* for any other error value the driver returns (connectivity, constraint, ...)
Canceled == "context canceled"
DeadlineExceeded == "context deadline exceeded"
ErrNoRows == "no rows in result set"
StoreErr == "store error"

Nil == <<>>

\* errors.Is(e, target) over the %w chain
ErrorsIs(e, target) == \E k \in DOMAIN e : e[k] = target

\* fmt.Errorf(text + ": %w", e)
Wrap(text, e) == <<text>> \o e

\* errors.New(text) / fmt.Errorf without %w
NewError(text) == <<text>>

\* ------------------------------------------------------------ the inputs
Names == {"", "acme"}
\* items: zero quantity, negative price, a price below one cent, a whole
\* cent; two of them carry timestamps of the caller
ItemInputs ==
    {[Quantity |-> 0, Price |-> 10, CreatedAt |-> ZeroTime,
      UpdatedAt |-> ZeroTime],
     [Quantity |-> 2, Price |-> -1, CreatedAt |-> ZeroTime,
      UpdatedAt |-> ZeroTime],
     [Quantity |-> 2, Price |-> 4, CreatedAt |-> MaxTime,
      UpdatedAt |-> MaxTime],
     [Quantity |-> 1, Price |-> 10, CreatedAt |-> MaxTime,
      UpdatedAt |-> ZeroTime]}
ItemLists == UNION {[1..n -> ItemInputs] : n \in 0..MaxItems}
\* caller-supplied values of the derived fields of CreateOrderInput
Extras == {[TotalAmount |-> 0, Status |-> ""],
           [TotalAmount |-> 7, Status |-> StatusCompleted]}
CreateInputs == {[CustomerName |-> n, TotalAmount |-> x.TotalAmount,
                  Status |-> x.Status, Items |-> l] :
                 n \in Names, x \in Extras, l \in ItemLists}
Ids == 0..MaxId
UpdateStatuses == {StatusProcessing, "shipped"}
UpdateInputs == {[ID |-> id, CustomerName |-> "zed", TotalAmount |-> 7,
                  Status |-> s] : id \in Ids, s \in UpdateStatuses}

MaxInt == 2 ^ (IntBits - 1) - 1
Pages == {0, 1, 2, 3}
Sizes == {-1, 1, 2, 10, MaxInt}
ListInputs == [Page : Pages, Size : Sizes]

\* the inputs of the requests that run concurrently
ConcCreateInputs == {[CustomerName |-> "acme", TotalAmount |-> 7,
                      Status |-> StatusCompleted,
                      Items |-> <<[Quantity |-> 1, Price |-> 10,
                                   CreatedAt |-> MaxTime,
                                   UpdatedAt |-> ZeroTime],
                                  [Quantity |-> 1, Price |-> 10,
                                   CreatedAt |-> MaxTime,
                                   UpdatedAt |-> ZeroTime]>>]}
ConcIds == {1}
ConcListInputs == {[Page |-> 1, Size |-> 0], [Page |-> 2, Size |-> 1]}
ConcUpdateInputs == {[ID |-> id, CustomerName |-> "zed", TotalAmount |-> 7,
                      Status |-> StatusProcessing] : id \in ConcIds}

CtxStates == {"live", Canceled, DeadlineExceeded}

\* ---------------------------------------------------------------- state
VARIABLES
    orders,        \* committed rows of table orders: id -> row
    order_items,   \* committed rows of table order_items (records with id)
    nextOrderId,   \* the SERIAL sequence of orders.id
    nextItemId,    \* the SERIAL sequence of order_items.id
    ncalls,        \* number of requests accepted so far
    pc,            \* per worker: position of its request
    op,            \* per worker: the operation requested
    input,         \* per worker: the input handed to the service
    ctx,           \* per worker: state of the request context
    arg,           \* per worker: what the service handed to the repository
    tx,            \* per worker: the repository's transaction
    err,           \* per worker: the error the service returned
    result,        \* per worker: the value a read returned
    created,       \* history: order id -> ids of the item rows committed
                   \* with it by CreateOrder
    deleted,       \* history: the ids a DeleteOrder returned success for
    request        \* per worker: the HTTP request an order handler serves

vars == <<orders, order_items, nextOrderId, nextItemId, ncalls,
          pc, op, input, ctx, arg, tx, err, result, created, deleted,
          request>>

store == <<orders, order_items>>
seqs == <<nextOrderId, nextItemId>>
hist == <<created, deleted>>
calls == <<ncalls, request>>

\* ------------------------------------------------------------- helpers
Min(a, b) == IF a < b THEN a ELSE b

\* what a DECIMAL(10,2) column keeps of a non-negative amount (half up)
Round2(x) == ((x + 5) \div 10) * 10

RECURSIVE SumItems(_)
\* totalAmount of OrderService.CreateOrder: sum of Price * Quantity
SumItems(l) ==
    IF l = <<>> THEN 0
    ELSE l[1].Price * l[1].Quantity + SumItems(Tail(l))

RECURSIVE SumSet(_)
SumSet(S) ==
    IF S = {} THEN 0
    ELSE LET r == CHOOSE x \in S : TRUE
         IN r.price * r.quantity + SumSet(S \ {r})

\* int arithmetic of the Go code: wrap-around, division truncated toward 0
WrapInt(x) == ((x + 2 ^ (IntBits - 1)) % (2 ^ IntBits)) - 2 ^ (IntBits - 1)

Abs(x) == IF x < 0 THEN -x ELSE x

GoDiv(a, b) ==
    IF (a < 0) = (b < 0) THEN Abs(a) \div Abs(b) ELSE -(Abs(a) \div Abs(b))

RECURSIVE SeqsOf(_)
\* every order in which a query without a deciding ORDER BY can return rows S
SeqsOf(S) ==
    IF S = {} THEN {<<>>}
    ELSE UNION {{<<x>> \o t : t \in SeqsOf(S \ {x})} : x \in S}

ZeroOrder == [ID |-> 0, CustomerName |-> "", TotalAmount |-> 0, Status |-> "",
              CreatedAt |-> ZeroTime, UpdatedAt |-> ZeroTime]
ZeroOrderWithItems == [Order |-> ZeroOrder, Items |-> <<>>]
\* DataNil tells the nil slice from the empty one
ZeroListPaginatedOrders ==
    [Data |-> <<>>, DataNil |-> TRUE, Total |-> 0, Page |-> 0, Size |-> 0,
     TotalPages |-> 0]

\* rows.Scan of a row of orders into models.Order
ScanOrder(id) ==
    [ID |-> id, CustomerName |-> orders[id].customer_name,
     TotalAmount |-> orders[id].total_amount, Status |-> orders[id].status,
     CreatedAt |-> orders[id].created_at, UpdatedAt |-> orders[id].updated_at]

\* rows.Scan of a row of order_items into models.OrderItem
ScanItem(r) ==
    [ID |-> r.id, OrderID |-> r.order_id, Quantity |-> r.quantity,
     Price |-> r.price, CreatedAt |-> r.created_at, UpdatedAt |-> r.updated_at]

ItemsOf(rows, id) == {r \in rows : r.order_id = id}

NoTx == [st |-> "none", insertedOrderID |-> 0, i |-> 0,
         insOrder |-> <<>>, insItems |-> {},
         delItems |-> {}, delOrders |-> {}, upd |-> <<>>,
         commit |-> "none", rollback |-> "none", rollbackCtx |-> "none"]

NoArg == [kind |-> "none"]

\* no HTTP request: the service is called by another caller
NoRequest == [handler |-> "none"]

\* row locks held by the open transactions of the other workers
OthersLockOrder(w, id) ==
    \E v \in Workers \ {w} :
        /\ tx[v].st = "open"
        /\ \/ id \in tx[v].delOrders
           \/ tx[v].upd # <<>> /\ tx[v].upd[1].id = id

OthersLockItem(w, itemId) ==
    \E v \in Workers \ {w} :
        /\ tx[v].st = "open"
        /\ itemId \in tx[v].delItems

\* CommitOrders gone wrong: the inserted order row is lost
CommitOrdersWithoutInsert(t) ==
    [id \in (DOMAIN orders) \ t.delOrders |-> orders[id]]

\* the effect of COMMIT of transaction t on the two tables
CommitOrders(t) ==
    LET kept == [id \in (DOMAIN orders) \ t.delOrders |-> orders[id]]
        upded == IF t.upd = <<>> \/ t.upd[1].id \notin DOMAIN kept THEN kept
                 ELSE [kept EXCEPT ![t.upd[1].id] =
                          [@ EXCEPT !.status = t.upd[1].status,
                                    !.updated_at = t.upd[1].updated_at]]
    IN IF t.insOrder = <<>> THEN upded
       ELSE [id \in DOMAIN upded \cup {t.insertedOrderID} |->
                IF id = t.insertedOrderID THEN t.insOrder[1] ELSE upded[id]]

\* CommitItems gone wrong: the rows the transaction deleted stay
CommitItemsKeepsDeleted(t) == order_items \cup t.insItems

CommitItems(t) ==
    {r \in order_items : r.id \notin t.delItems} \cup t.insItems

Init ==
    /\ orders = <<>>
    /\ order_items = {}
    /\ nextOrderId = 1
    /\ nextItemId = 1
    /\ ncalls = 0
    /\ pc = [w \in Workers |-> "idle"]
    /\ op = [w \in Workers |-> "none"]
    /\ input = [w \in Workers |-> <<>>]
    /\ ctx = [w \in Workers |-> "live"]
    /\ arg = [w \in Workers |-> NoArg]
    /\ tx = [w \in Workers |-> NoTx]
    /\ err = [w \in Workers |-> Nil]
    /\ result = [w \in Workers |-> <<>>]
    /\ created = <<>>
    /\ deleted = {}
    /\ request = [w \in Workers |-> NoRequest]

\* ------------------------------------------------------------ a request
\* The request context ends (client gone, or the deadline passes) while the
\* request is being served.
CtxEnd(w, c) ==
    /\ pc[w] \notin {"idle", "ret", "rejected"}
    /\ ctx[w] = "live"
    \* the context an order handler passes on is the fasthttp request
    \* context: it has no deadline, it is cancelled when the server stops
    /\ c = DeadlineExceeded => request[w] = NoRequest
    /\ ctx' = [ctx EXCEPT ![w] = c]
    /\ UNCHANGED <<store, hist, seqs, calls, pc, op, input, arg, tx, err,
                   result>>

\* worker w is free to serve a request
Idle(w) == pc[w] = "idle" /\ ncalls < MaxCalls

\* a handler calls the service with input in and a context in state c
Enter(w, o, in, c) ==
    /\ Idle(w)
    /\ ncalls' = ncalls + 1
    /\ op' = [op EXCEPT ![w] = o]
    /\ input' = [input EXCEPT ![w] = in]
    /\ ctx' = [ctx EXCEPT ![w] = c]

Return(w, e) ==
    /\ err' = [err EXCEPT ![w] = e]
    /\ pc' = [pc EXCEPT ![w] = "ret"]

\* ------------------------------------------------------------ the service
RECURSIVE ItemError(_)
\* the validation loop of OrderService.CreateOrder: the error of the first
\* invalid item, Nil when every item is valid
ItemError(l) ==
    IF l = <<>> THEN Nil
    ELSE IF l[1].Quantity <= 0
         THEN NewError("item quantity must be greater than 0")
    ELSE IF l[1].Price < 0
         THEN NewError("item price cannot be negative")
    ELSE ItemError(Tail(l))

\* ValidateCreate gone wrong: only the first item is looked at
ValidateCreateFirstItem(in) ==
    IF in.CustomerName = "" THEN NewError("customer name is required")
    ELSE IF Len(in.Items) = 0
         THEN NewError("order must have at least one item")
    ELSE ItemError(<<in.Items[1]>>)

ValidateCreate(in) ==
    IF in.CustomerName = "" THEN NewError("customer name is required")
    ELSE IF Len(in.Items) = 0
         THEN NewError("order must have at least one item")
    ELSE ItemError(in.Items)

\* ServiceOrder gone wrong: total and status are taken from the input
ServiceOrderTrusting(in) ==
    [ID |-> 0, CustomerName |-> in.CustomerName,
     TotalAmount |-> in.TotalAmount,
     Status |-> IF in.Status = "" THEN StatusPending ELSE in.Status,
     CreatedAt |-> ZeroTime, UpdatedAt |-> ZeroTime]

\* order and items as OrderService.CreateOrder builds them
ServiceOrder(in) ==
    [ID |-> 0, CustomerName |-> in.CustomerName,
     TotalAmount |-> SumItems(in.Items), Status |-> StatusPending,
     CreatedAt |-> ZeroTime, UpdatedAt |-> ZeroTime]

\* requests that are about to draw from the sequence of orders.id
Creating == {v \in Workers : pc[v] \in {"begin", "ins_order"}
                             /\ op[v] = "CreateOrder"}

ServiceItems(in) ==
    [k \in 1..Len(in.Items) |->
        [Quantity |-> in.Items[k].Quantity, Price |-> in.Items[k].Price,
         CreatedAt |-> ZeroTime, UpdatedAt |-> ZeroTime]]

\* OrderService.CreateOrder up to its call of the repository
SvcCreateOrder(w, in, c) ==
    /\ Enter(w, "CreateOrder", in, c)
    /\ nextOrderId + Cardinality(Creating) <= MaxOrders
    /\ LET e == ValidateCreate(in)
       IN IF e # Nil
          THEN /\ Return(w, e)
               /\ UNCHANGED arg
          ELSE /\ arg' = [arg EXCEPT ![w] =
                            [kind |-> "create",
                             order |-> ServiceOrder(in),
                             items |-> ServiceItems(in)]]
               /\ pc' = [pc EXCEPT ![w] = "begin"]
               /\ UNCHANGED err
    /\ UNCHANGED <<store, hist, seqs, tx, result>>

\* OrderService.UpdateOrder up to its call of the repository
SvcUpdateOrder(w, in, c) ==
    /\ Enter(w, "UpdateOrder", in, c)
    /\ \E now \in Times :
         arg' = [arg EXCEPT ![w] =
                   [kind |-> "update",
                    order |-> [ID |-> in.ID, CustomerName |-> "",
                               TotalAmount |-> 0, Status |-> in.Status,
                               CreatedAt |-> ZeroTime, UpdatedAt |-> now]]]
    /\ pc' = [pc EXCEPT ![w] = "begin"]
    /\ UNCHANGED <<store, hist, seqs, tx, err, result>>

\* OrderService.DeleteOrder up to its call of the repository
SvcDeleteOrder(w, id, c) ==
    /\ Enter(w, "DeleteOrder", id, c)
    /\ arg' = [arg EXCEPT ![w] = [kind |-> "delete", id |-> id]]
    /\ pc' = [pc EXCEPT ![w] = "begin"]
    /\ UNCHANGED <<store, hist, seqs, tx, err, result>>

\* --------------------------------------------- the repository: writes
\* the error a database call returns when it fails: the context's error if
\* the context has ended, any other driver error otherwise
CallError(w) == IF ctx[w] = "live" THEN <<StoreErr>> ELSE <<ctx[w]>>

\* Report gone wrong: the cause is turned into text (%v), its chain is lost
ReportStringified(text, e) == NewError(text)

\* the error-handling blocks of the repository: a context error is returned
\* as it is, any other error wrapped with %w
Report(text, e) ==
    IF ErrorsIs(e, Canceled) \/ ErrorsIs(e, DeadlineExceeded) THEN e
    ELSE Wrap(text, e)

\* RepoBegin gone wrong: the transaction is begun with a context of its own,
\* not the request's
RepoBeginBackground(w) ==
    /\ pc[w] = "begin"
    /\ \/ /\ Return(w, Wrap("failed to begin transaction", <<StoreErr>>))
          /\ UNCHANGED tx
       \/ /\ tx' = [tx EXCEPT ![w] = [NoTx EXCEPT !.st = "open"]]
          /\ pc' = [pc EXCEPT ![w] =
                      CASE op[w] = "CreateOrder" -> "ins_order"
                        [] op[w] = "UpdateOrder" -> "upd"
                        [] op[w] = "DeleteOrder" -> "del_items"]
          /\ UNCHANGED err
    /\ UNCHANGED <<store, hist, seqs, calls, op, input, ctx, arg, result>>

\* r.db.Begin(ctx)
RepoBegin(w) ==
    /\ pc[w] = "begin"
    /\ \/ /\ Return(w, Report("failed to begin transaction", CallError(w)))
          /\ UNCHANGED tx
       \/ /\ ctx[w] = "live"
          /\ tx' = [tx EXCEPT ![w] = [NoTx EXCEPT !.st = "open"]]
          /\ pc' = [pc EXCEPT ![w] =
                      CASE op[w] = "CreateOrder" -> "ins_order"
                        [] op[w] = "UpdateOrder" -> "upd"
                        [] op[w] = "DeleteOrder" -> "del_items"]
          /\ UNCHANGED err
    /\ UNCHANGED <<store, hist, seqs, calls, op, input, ctx, arg, result>>

\* Deferred gone wrong: the error of a failed rollback is assigned to the
\* named result
DeferredOverrides(e, rb) ==
    IF rb = "failed" THEN NewError("failed to rollback transaction") ELSE e

\* the named result err once the deferred function has run: the error of the
\* rollback is logged and dropped
Deferred(e, rb) == e

\* Rollback gone wrong: the deferred function commits what the transaction
\* wrote so far instead of rolling it back
RollbackCommits(w, e) ==
    /\ Return(w, e)
    /\ tx' = [tx EXCEPT ![w].st = "committed"]
    /\ orders' = CommitOrders(tx[w])
    /\ order_items' = CommitItems(tx[w])
    /\ UNCHANGED hist

\* return e from the repository with the transaction open: the deferred
\* function calls tx.Rollback(ctx) with the request context; whether or not
\* the ROLLBACK gets through, the server discards the transaction (a failed
\* rollback closes the connection)
Rollback(w, e) ==
    /\ \E rb \in (IF ctx[w] = "live" THEN {"ok", "failed"} ELSE {"failed"}) :
         /\ Return(w, Deferred(e, rb))
         /\ tx' = [tx EXCEPT ![w].st = IF rb = "ok" THEN "rolledback"
                                       ELSE "aborted",
                             ![w].rollback = rb,
                             ![w].rollbackCtx = ctx[w]]
    /\ UNCHANGED <<store, hist>>

\* the row INSERT INTO orders writes for order o
OrderRow(o) ==
    [customer_name |-> o.CustomerName, total_amount |-> Round2(o.TotalAmount),
     status |-> o.Status, created_at |-> o.CreatedAt,
     updated_at |-> o.UpdatedAt]

\* the row INSERT INTO order_items writes for item it of order oid
ItemRow(id, oid, it) ==
    [id |-> id, order_id |-> oid, quantity |-> it.Quantity,
     price |-> Round2(it.Price), created_at |-> it.CreatedAt,
     updated_at |-> it.UpdatedAt]

\* RepoInsertOrder gone wrong: the id is computed from the committed rows
\* (MAX(id) + 1), not drawn from the sequence
RepoInsertOrderMaxId(w) ==
    /\ pc[w] = "ins_order"
    /\ \/ /\ Rollback(w, Report("failed to insert order", CallError(w)))
          /\ UNCHANGED seqs
       \/ /\ ctx[w] = "live"
          /\ tx' = [tx EXCEPT ![w].insertedOrderID =
                                IF orders = <<>> THEN 1
                                ELSE 1 + CHOOSE m \in DOMAIN orders :
                                            \A n \in DOMAIN orders : n <= m,
                             ![w].i = 1,
                             ![w].insOrder = <<OrderRow(arg[w].order)>>]
          /\ nextOrderId' = nextOrderId + 1
          /\ pc' = [pc EXCEPT ![w] =
                      IF Len(arg[w].items) > 0 THEN "ins_item" ELSE "commit"]
          /\ UNCHANGED <<store, hist, nextItemId, err>>
    /\ UNCHANGED <<calls, op, input, ctx, arg, result>>

\* tx.QueryRow(ctx, INSERT INTO orders ... RETURNING id)
RepoInsertOrder(w) ==
    /\ pc[w] = "ins_order"
    /\ \/ /\ Rollback(w, Report("failed to insert order", CallError(w)))
          /\ UNCHANGED seqs
       \/ /\ ctx[w] = "live"
          /\ tx' = [tx EXCEPT ![w].insertedOrderID = nextOrderId,
                             ![w].i = 1,
                             ![w].insOrder = <<OrderRow(arg[w].order)>>]
          /\ nextOrderId' = nextOrderId + 1
          /\ pc' = [pc EXCEPT ![w] =
                      IF Len(arg[w].items) > 0 THEN "ins_item" ELSE "commit"]
          /\ UNCHANGED <<store, hist, nextItemId, err>>
    /\ UNCHANGED <<calls, op, input, ctx, arg, result>>

\* one iteration of the loop: tx.Exec(ctx, INSERT INTO order_items ...)
RepoInsertItem(w) ==
    /\ pc[w] = "ins_item"
    /\ \/ /\ Rollback(w, Report("failed to insert order item", CallError(w)))
          /\ UNCHANGED seqs
       \/ /\ ctx[w] = "live"
          /\ tx' = [tx EXCEPT ![w].i = @ + 1,
                       ![w].insItems = @ \cup
                          {ItemRow(nextItemId, tx[w].insertedOrderID,
                                   arg[w].items[tx[w].i])}]
          /\ nextItemId' = nextItemId + 1
          /\ pc' = [pc EXCEPT ![w] =
                      IF tx[w].i = Len(arg[w].items) THEN "commit"
                      ELSE "ins_item"]
          /\ UNCHANGED <<store, hist, nextOrderId, err>>
    /\ UNCHANGED <<calls, op, input, ctx, arg, result>>

\* the error of a row-affecting statement that matched no row
NotFound == NewError("order with ID not found")

\* RepoUpdate gone wrong: the statement has no WHERE clause to speak of, it
\* hits whichever row comes first
RepoUpdateAnyRow(w) ==
    /\ pc[w] = "upd"
    /\ \/ Rollback(w, Report("failed to update order", CallError(w)))
       \/ /\ ctx[w] = "live"
          /\ IF orders = <<>>
             THEN Rollback(w, NotFound)
             ELSE /\ \E id \in DOMAIN orders :
                       /\ ~OthersLockOrder(w, id)
                       /\ tx' = [tx EXCEPT ![w].upd =
                              <<[id |-> id,
                                 status |-> arg[w].order.Status,
                                 updated_at |-> arg[w].order.UpdatedAt]>>]
                  /\ pc' = [pc EXCEPT ![w] = "commit"]
                  /\ UNCHANGED <<store, hist, err>>
    /\ UNCHANGED <<seqs, calls, op, input, ctx, arg, result>>

\* tx.Exec(ctx, UPDATE orders SET status, updated_at WHERE id)
RepoUpdate(w) ==
    /\ pc[w] = "upd"
    /\ \/ Rollback(w, Report("failed to update order", CallError(w)))
       \/ /\ ctx[w] = "live"
          /\ ~OthersLockOrder(w, arg[w].order.ID)
          /\ IF arg[w].order.ID \notin DOMAIN orders
             THEN Rollback(w, NotFound)
             ELSE /\ tx' = [tx EXCEPT ![w].upd =
                              <<[id |-> arg[w].order.ID,
                                 status |-> arg[w].order.Status,
                                 updated_at |-> arg[w].order.UpdatedAt]>>]
                  /\ pc' = [pc EXCEPT ![w] = "commit"]
                  /\ UNCHANGED <<store, hist, err>>
    /\ UNCHANGED <<seqs, calls, op, input, ctx, arg, result>>

\* RepoDeleteItems gone wrong: the statement runs on the pool, outside the
\* transaction, and is committed at once
RepoDeleteItemsAutocommit(w) ==
    /\ pc[w] = "del_items"
    /\ \/ Rollback(w, Report("failed to delete order items", CallError(w)))
       \/ /\ ctx[w] = "live"
          /\ LET hit == ItemsOf(order_items, arg[w].id)
             IN /\ \A r \in hit : ~OthersLockItem(w, r.id)
                /\ order_items' = order_items \ hit
          /\ pc' = [pc EXCEPT ![w] = "del_order"]
          /\ UNCHANGED <<orders, hist, tx, err>>
    /\ UNCHANGED <<seqs, calls, op, input, ctx, arg, result>>

\* tx.Exec(ctx, DELETE FROM order_items WHERE order_id)
RepoDeleteItems(w) ==
    /\ pc[w] = "del_items"
    /\ \/ Rollback(w, Report("failed to delete order items", CallError(w)))
       \/ /\ ctx[w] = "live"
          /\ LET hit == ItemsOf(order_items, arg[w].id)
             IN /\ \A r \in hit : ~OthersLockItem(w, r.id)
                /\ tx' = [tx EXCEPT ![w].delItems = {r.id : r \in hit}]
          /\ pc' = [pc EXCEPT ![w] = "del_order"]
          /\ UNCHANGED <<store, hist, err>>
    /\ UNCHANGED <<seqs, calls, op, input, ctx, arg, result>>

\* RepoDeleteOrder gone wrong: RowsAffected() is not looked at
RepoDeleteOrderUnchecked(w) ==
    /\ pc[w] = "del_order"
    /\ \/ Rollback(w, Report("failed to delete order", CallError(w)))
       \/ /\ ctx[w] = "live"
          /\ ~OthersLockOrder(w, arg[w].id)
          /\ \A r \in ItemsOf(order_items, arg[w].id) :
                ~OthersLockItem(w, r.id)
          /\ tx' = [tx EXCEPT ![w].delOrders = {arg[w].id},
                             ![w].delItems = @ \cup
                                {r.id : r \in ItemsOf(order_items, arg[w].id)}]
          /\ pc' = [pc EXCEPT ![w] = "commit"]
          /\ UNCHANGED <<store, hist, err>>
    /\ UNCHANGED <<seqs, calls, op, input, ctx, arg, result>>

\* tx.Exec(ctx, DELETE FROM orders WHERE id), ON DELETE CASCADE included
RepoDeleteOrder(w) ==
    /\ pc[w] = "del_order"
    /\ \/ Rollback(w, Report("failed to delete order", CallError(w)))
       \/ /\ ctx[w] = "live"
          /\ ~OthersLockOrder(w, arg[w].id)
          \* the cascade waits for the item rows other transactions hold
          /\ \A r \in ItemsOf(order_items, arg[w].id) :
                ~OthersLockItem(w, r.id)
          /\ IF arg[w].id \notin DOMAIN orders
             THEN Rollback(w, NotFound)
             ELSE /\ tx' = [tx EXCEPT ![w].delOrders = {arg[w].id},
                                     ![w].delItems = @ \cup
                                        {r.id : r \in ItemsOf(order_items,
                                                              arg[w].id)}]
                  /\ pc' = [pc EXCEPT ![w] = "commit"]
                  /\ UNCHANGED <<store, hist, err>>
    /\ UNCHANGED <<seqs, calls, op, input, ctx, arg, result>>

\* tx.Commit(ctx), first half: the COMMIT is sent, or fails before the
\* server has seen it
RepoCommit(w) ==
    /\ pc[w] = "commit"
    /\ \/ /\ Return(w, Deferred(Report("failed to commit transaction",
                                      CallError(w)), "failed"))
          \* Commit has closed the pgx transaction: the deferred Rollback
          \* returns ErrTxClosed, the connection is closed
          /\ tx' = [tx EXCEPT ![w].st = "aborted", ![w].commit = "failed",
                             ![w].rollback = "failed",
                             ![w].rollbackCtx = ctx[w]]
          /\ UNCHANGED <<store, hist>>
       \/ /\ ctx[w] = "live"
          /\ orders' = CommitOrders(tx[w])
          /\ order_items' = CommitItems(tx[w])
          /\ created' = IF tx[w].insOrder = <<>> THEN created
                        ELSE created @@ (tx[w].insertedOrderID :>
                                          {r.id : r \in tx[w].insItems})
          /\ tx' = [tx EXCEPT ![w].st = "committed", ![w].commit = "sent"]
          /\ pc' = [pc EXCEPT ![w] = "commit_wait"]
          /\ UNCHANGED <<err, deleted>>
    /\ UNCHANGED <<seqs, calls, op, input, ctx, arg, result>>

\* RepoCommitReturn gone wrong: when the answer to COMMIT does not arrive
\* the whole operation is tried again
RepoCommitReturnRetries(w) ==
    /\ pc[w] = "commit_wait"
    /\ \/ /\ pc' = [pc EXCEPT ![w] = "begin"]
          /\ tx' = [tx EXCEPT ![w] = NoTx]
          /\ UNCHANGED <<deleted, err>>
       \/ /\ ctx[w] = "live"
          /\ Return(w, Nil)
          /\ tx' = [tx EXCEPT ![w].commit = "ok"]
          /\ deleted' = IF op[w] = "DeleteOrder" THEN deleted \cup {arg[w].id}
                        ELSE deleted
    /\ UNCHANGED <<store, created, seqs, calls, op, input, ctx, arg, result>>

\* tx.Commit(ctx), second half: the answer of the server reaches the client,
\* or the wait for it is cut short
RepoCommitReturn(w) ==
    /\ pc[w] = "commit_wait"
    /\ \/ /\ Return(w, Deferred(Report("failed to commit transaction",
                                      CallError(w)), "failed"))
          /\ tx' = [tx EXCEPT ![w].commit = "failed",
                             ![w].rollback = "failed",
                             ![w].rollbackCtx = ctx[w]]
          /\ UNCHANGED deleted
       \/ /\ ctx[w] = "live"
          /\ Return(w, Nil)
          /\ tx' = [tx EXCEPT ![w].commit = "ok"]
          /\ deleted' = IF op[w] = "DeleteOrder" THEN deleted \cup {arg[w].id}
                        ELSE deleted
    /\ UNCHANGED <<store, created, seqs, calls, op, input, ctx, arg, result>>

\* ---------------------------------------------- the repository: reads
\* SvcGetOrderById gone wrong: the id is validated before the context is
\* looked at
SvcGetOrderByIdValidatesFirst(w, id, c) ==
    /\ Enter(w, "GetOrderById", id, c)
    /\ IF id <= 0
       THEN /\ Return(w, NewError("order ID must be greater than 0"))
            /\ result' = [result EXCEPT ![w] = ZeroOrderWithItems]
            /\ UNCHANGED arg
       ELSE IF c # "live"
       THEN /\ Return(w, <<c>>)
            /\ result' = [result EXCEPT ![w] = ZeroOrderWithItems]
            /\ UNCHANGED arg
       ELSE /\ arg' = [arg EXCEPT ![w] =
                         [kind |-> "get", id |-> id, order |-> ZeroOrder,
                          rowsErr |-> Nil]]
            /\ pc' = [pc EXCEPT ![w] = "get_order"]
            /\ UNCHANGED <<err, result>>
    /\ UNCHANGED <<store, hist, seqs, tx>>

\* OrderService.GetOrderById up to its call of the repository
SvcGetOrderById(w, id, c) ==
    /\ Enter(w, "GetOrderById", id, c)
    /\ IF c # "live"
       THEN /\ Return(w, <<c>>)
            /\ result' = [result EXCEPT ![w] = ZeroOrderWithItems]
            /\ UNCHANGED arg
       ELSE IF id <= 0
       THEN /\ Return(w, NewError("order ID must be greater than 0"))
            /\ result' = [result EXCEPT ![w] = ZeroOrderWithItems]
            /\ UNCHANGED arg
       ELSE /\ arg' = [arg EXCEPT ![w] =
                         [kind |-> "get", id |-> id, order |-> ZeroOrder,
                          rowsErr |-> Nil]]
            /\ pc' = [pc EXCEPT ![w] = "get_order"]
            /\ UNCHANGED <<err, result>>
    /\ UNCHANGED <<store, hist, seqs, tx>>

\* SvcGetResult gone wrong: a nil error is taken as success, whatever the
\* order
SvcGetResultTrusting(w, o, e) ==
    IF e # Nil
    THEN /\ Return(w, e)
         /\ result' = [result EXCEPT ![w] = ZeroOrderWithItems]
    ELSE /\ Return(w, Nil)
         /\ result' = [result EXCEPT ![w] = o]

\* what OrderService.GetOrderById makes of the repository's answer
SvcGetResult(w, o, e) ==
    IF e # Nil
    THEN /\ Return(w, e)
         /\ result' = [result EXCEPT ![w] = ZeroOrderWithItems]
    ELSE IF o.Order.ID = 0
    THEN /\ Return(w, NewError("order not found"))
         /\ result' = [result EXCEPT ![w] = ZeroOrderWithItems]
    ELSE /\ Return(w, Nil)
         /\ result' = [result EXCEPT ![w] = o]

\* QueryRowScan gone wrong: no row is reported as a nil error with the zero
\* order
QueryRowScanZeroValue(id) ==
    IF id \in DOMAIN orders THEN [order |-> ScanOrder(id), err |-> Nil]
    ELSE [order |-> ZeroOrder, err |-> Nil]

\* QueryRow(SELECT ... FROM orders WHERE id).Scan(&order) on a live connection
QueryRowScan(id) ==
    IF id \in DOMAIN orders THEN [order |-> ScanOrder(id), err |-> Nil]
    ELSE [order |-> ZeroOrder, err |-> <<ErrNoRows>>]

\* the order query of orderRepository.GetOrderById and its error handling
RepoGetOrder(w) ==
    /\ pc[w] = "get_order"
    /\ \/ /\ SvcGetResult(w, ZeroOrderWithItems, CallError(w))
          /\ UNCHANGED arg
       \/ /\ ctx[w] = "live"
          /\ LET r == QueryRowScan(arg[w].id)
             IN IF r.err # Nil
                THEN /\ SvcGetResult(w, ZeroOrderWithItems, r.err)
                     /\ UNCHANGED arg
                ELSE /\ arg' = [arg EXCEPT ![w].order = r.order]
                     /\ pc' = [pc EXCEPT ![w] = "get_items"]
                     /\ UNCHANGED <<err, result>>
    /\ UNCHANGED <<store, hist, seqs, calls, op, input, ctx, tx>>

\* how the row stream of a query that was accepted ends, rows.Next() being
\* false: all rows were read, the connection broke, or the context ended
\* while the rows were read
StreamEnds == {"eof", StoreErr, Canceled}

\* rows.Err() after the loop
StreamErr(e) == IF e = "eof" THEN Nil ELSE <<e>>

\* the context of worker w after a stream that ended with e
CtxAfter(w, e) == IF e = Canceled THEN [ctx EXCEPT ![w] = Canceled] ELSE ctx

\* r.db.Query(ctx, SELECT ... FROM order_items WHERE order_id) and the loop
\* over its rows; the loop ends when Next() is false, itemRows.Err() is never
\* looked at, so a stream cut short yields the rows read so far
RepoGetItems(w) ==
    /\ pc[w] = "get_items"
    /\ \/ /\ SvcGetResult(w, ZeroOrderWithItems,
                          Report("failed to fetch order items", CallError(w)))
          /\ UNCHANGED <<arg, ctx>>
       \/ /\ ctx[w] = "live"
          /\ \E s \in SeqsOf(ItemsOf(order_items, arg[w].id)) :
               \E k \in 0..Len(s), e \in StreamEnds :
                  /\ k = Len(s) <=> e = "eof"
                  /\ arg' = [arg EXCEPT ![w].rowsErr = StreamErr(e)]
                  /\ ctx' = CtxAfter(w, e)
                  /\ SvcGetResult(w,
                        [Order |-> arg[w].order,
                         Items |-> [j \in 1..k |-> ScanItem(s[j])]], Nil)
    /\ UNCHANGED <<store, hist, seqs, calls, op, input, tx>>

\* what the tests of the service make MockOrderRepository.GetOrderById
\* return for id: an error with the zero value, the zero value with a nil
\* error, or an order of that id
MockAnswers(id) ==
    {[order |-> ZeroOrderWithItems, err |-> e] :
        e \in {NewError("order not found"), <<ErrNoRows>>, <<StoreErr>>, Nil}}
    \cup
    {[order |-> [Order |-> [ZeroOrder EXCEPT !.ID = id,
                                            !.CustomerName = "acme",
                                            !.Status = StatusPending],
                 Items |-> l],
      err |-> Nil] :
        l \in {<<>>, <<[ID |-> 1, OrderID |-> id, Quantity |-> 1,
                        Price |-> 10, CreatedAt |-> ZeroTime,
                        UpdatedAt |-> ZeroTime]>>}}

\* the service built on MockOrderRepository: its second look at the context
\* and the call of the mock, which answers whatever the context
MockGetOrderById(w) ==
    /\ pc[w] = "get_order"
    /\ \/ /\ ctx[w] # "live"
          /\ Return(w, <<ctx[w]>>)
          /\ result' = [result EXCEPT ![w] = ZeroOrderWithItems]
          /\ UNCHANGED arg
       \/ \E a \in MockAnswers(arg[w].id) :
            /\ arg' = [arg EXCEPT ![w] =
                         [kind |-> "get", id |-> arg[w].id,
                          order |-> a.order.Order, rowsErr |-> Nil,
                          answer |-> a]]
            /\ SvcGetResult(w, a.order, a.err)
    /\ UNCHANGED <<store, hist, seqs, calls, op, input, ctx, tx>>

\* OrderService.ListOrders up to its call of the repository
SvcListOrders(w, in, c) ==
    /\ Enter(w, "ListOrders", in, c)
    /\ arg' = [arg EXCEPT ![w] =
                 [kind |-> "list", Page |-> in.Page, Size |-> in.Size,
                  orderIDs |-> <<>>, orderMap |-> <<>>, total |-> 0,
                  rowsErr |-> Nil, queries |-> 0]]
    /\ pc' = [pc EXCEPT ![w] = "list_orders"]
    /\ UNCHANGED <<store, hist, seqs, tx, err, result>>

\* what OrderService.ListOrders makes of the repository's answer
SvcListResult(w, r, e) ==
    /\ Return(w, e)
    /\ result' = [result EXCEPT ![w] =
                    IF e # Nil THEN ZeroListPaginatedOrders ELSE r]

NormPage(page) == IF page < 1 THEN 1 ELSE page
\* NormSize gone wrong: the default size is 1
NormSizeOne(size) == IF size < 1 THEN 1 ELSE size
NormSize(size) == IF size < 1 THEN 10 ELSE size
Offset(page, size) == WrapInt((page - 1) * size)

\* the ids of ORDER BY created_at DESC: any order that agrees with created_at
OrderedIds ==
    {s \in SeqsOf(DOMAIN orders) :
        \A a, b \in DOMAIN s :
            a < b => orders[s[a]].created_at >= orders[s[b]].created_at}

\* LIMIT size OFFSET offset
Window(s, size, offset) ==
    SubSeq(s, offset + 1, Min(Len(s), offset + size))

\* EmptyPage gone wrong: Data is left nil
EmptyPageNil(page, size) ==
    [Data |-> <<>>, DataNil |-> TRUE, Total |-> 0, Page |-> page,
     Size |-> size, TotalPages |-> 0]

\* the result of ListOrders when the orders query gave no row
EmptyPage(page, size) ==
    [Data |-> <<>>, DataNil |-> FALSE, Total |-> 0, Page |-> page,
     Size |-> size, TotalPages |-> 0]

\* PageIsEmpty gone wrong: the items query is issued for an empty page too
PageIsEmptyNever(ids) == FALSE

\* len(orderIDs) == 0
PageIsEmpty(ids) == Len(ids) = 0

\* normalisation, the orders query and the loop over its rows (rows.Err() is
\* never looked at); with no row read the empty page is returned at once;
\* queries counts the calls of r.db.Query
RepoListOrders(w) ==
    /\ pc[w] = "list_orders"
    /\ LET page == NormPage(arg[w].Page)
           size == NormSize(arg[w].Size)
           offset == Offset(page, size)
       IN \/ /\ SvcListResult(w, ZeroListPaginatedOrders, CallError(w))
             /\ arg' = [arg EXCEPT ![w].queries = @ + 1]
             /\ UNCHANGED ctx
          \/ /\ offset >= 0
             /\ ctx[w] = "live"
             /\ \E s \in OrderedIds :
                  LET rows == Window(s, size, offset)
                  IN \E k \in 0..Len(rows), e \in StreamEnds :
                       /\ k = Len(rows) <=> e = "eof"
                       /\ ctx' = CtxAfter(w, e)
                       /\ arg' = [arg EXCEPT ![w] =
                            [kind |-> "list",
                             Page |-> page, Size |-> size,
                             orderIDs |-> SubSeq(rows, 1, k),
                             orderMap |-> [id \in {rows[j] : j \in 1..k} |->
                                              ScanOrder(id)],
                             total |-> IF k = 0 THEN 0
                                       ELSE Cardinality(DOMAIN orders),
                             rowsErr |-> StreamErr(e),
                             queries |-> arg[w].queries + 1]]
                       /\ IF PageIsEmpty(SubSeq(rows, 1, k))
                          THEN SvcListResult(w, EmptyPage(page, size), Nil)
                          ELSE /\ pc' = [pc EXCEPT ![w] = "list_items"]
                               /\ UNCHANGED <<err, result>>
    /\ UNCHANGED <<store, hist, seqs, calls, op, input, tx>>

\* Assemble gone wrong: the item rows are not keyed by their order id, every
\* order of the page gets every item row
AssembleUnkeyed(ids, omap) ==
    {[k \in DOMAIN ids |->
        [Order |-> omap[ids[k]],
         Items |-> [j \in DOMAIN s |-> ScanItem(s[j])]]] :
     s \in SeqsOf(order_items)}

\* Assemble gone wrong: the page is built by ranging over orderMap, whose
\* iteration order is any order
AssembleMapOrder(ids, omap) ==
    LET idset == {ids[k] : k \in DOMAIN ids}
    IN {[k \in DOMAIN p |->
           LET Mine(r) == r.order_id = p[k]
               t == SelectSeq(s, Mine)
           IN [Order |-> omap[p[k]],
               Items |-> [j \in DOMAIN t |-> ScanItem(t[j])]]] :
        p \in SeqsOf(idset),
        s \in SeqsOf({r \in order_items : r.order_id \in idset})}

RECURSIVE Assemble(_, _)
\* the pages the items loop can build for the ids, one per order in which
\* the item rows WHERE order_id = ANY(ids) can arrive
Assemble(ids, omap) ==
    IF ids = <<>> THEN {<<>>}
    ELSE {<<[Order |-> omap[ids[1]],
             Items |-> [j \in DOMAIN s |-> ScanItem(s[j])]]>> \o rest :
            s \in SeqsOf(ItemsOf(order_items, ids[1])),
            rest \in Assemble(Tail(ids), omap)}

TotalPages(total, size) == GoDiv(WrapInt(WrapInt(total + size) - 1), size)

\* the items query, the loop over its rows, the assembly of the page and the
\* check of itemRows.Err()
RepoListItems(w) ==
    /\ pc[w] = "list_items"
    /\ \/ SvcListResult(w, ZeroListPaginatedOrders, CallError(w))
       \/ SvcListResult(w, ZeroListPaginatedOrders,
                        Wrap("error scanning order items", CallError(w)))
       \/ /\ ctx[w] = "live"
          /\ \E data \in Assemble(arg[w].orderIDs, arg[w].orderMap) :
               SvcListResult(w,
                  [Data |-> data, DataNil |-> FALSE,
                   Total |-> arg[w].total,
                   Page |-> arg[w].Page, Size |-> arg[w].Size,
                   TotalPages |-> TotalPages(arg[w].total, arg[w].Size)], Nil)
    /\ arg' = [arg EXCEPT ![w].queries = @ + 1]
    /\ UNCHANGED <<store, hist, seqs, calls, op, input, ctx, tx>>

\* ------------------------------------------------------------ transport
HttpBadRequest == 400
HttpNotFound == 404
HttpRequestTimeout == 408
HttpInternalServerError == 500
HttpOK == 200
HttpCreated == 201
HttpAccepted == 202

\* the status the order handlers answer with, given the service's error
HandlerStatus(o, e) ==
    CASE o = "CreateOrder" ->
            IF e = Nil THEN HttpCreated
            ELSE IF ErrorsIs(e, Canceled) THEN HttpRequestTimeout
            ELSE IF ErrorsIs(e, DeadlineExceeded) THEN HttpRequestTimeout
            ELSE HttpInternalServerError
      [] o = "GetOrderById" ->
            IF e = Nil THEN HttpOK
            ELSE IF ErrorsIs(e, Canceled) THEN HttpRequestTimeout
            ELSE IF ErrorsIs(e, DeadlineExceeded) THEN HttpRequestTimeout
            ELSE IF ErrorsIs(e, ErrNoRows) THEN HttpNotFound
            ELSE HttpInternalServerError
      [] o = "UpdateOrder" ->
            IF e = Nil THEN HttpOK ELSE HttpInternalServerError
      [] o = "DeleteOrder" ->
            IF e = Nil THEN HttpAccepted ELSE HttpInternalServerError
      [] o = "ListOrders" ->
            IF e = Nil THEN HttpOK
            ELSE IF ErrorsIs(e, ErrNoRows) THEN HttpNotFound
            ELSE HttpInternalServerError

\* the path parameters a GetOrder request can carry
RawIds == {"0", "1", "2", "abc"}

\* Atoi gone wrong: what is no number is taken as 0
AtoiLenient(str) ==
    CASE str = "1" -> [n |-> 1, err |-> Nil]
      [] str = "2" -> [n |-> 2, err |-> Nil]
      [] OTHER -> [n |-> 0, err |-> Nil]

\* strconv.Atoi
Atoi(str) ==
    CASE str = "0" -> [n |-> 0, err |-> Nil]
      [] str = "1" -> [n |-> 1, err |-> Nil]
      [] str = "2" -> [n |-> 2, err |-> Nil]
      [] OTHER -> [n |-> 0, err |-> NewError("invalid syntax")]

\* the bodies a CreateOrder request can carry: the JSON of a
\* CreateOrderInput, or bytes that are no JSON
Bodies == {[json |-> FALSE]} \cup {[json |-> TRUE, value |-> in] :
                                    in \in CreateInputs}

\* c.BodyParser(&input)
BodyParser(body) ==
    IF body.json THEN [input |-> body.value, err |-> Nil]
    ELSE [input |-> <<>>, err |-> NewError("invalid character")]

\* an order handler gets a request; the middleware has set up its user
\* context
Receive(w, h, raw) ==
    request' = [request EXCEPT ![w] =
                  [handler |-> h, raw |-> raw, userCtx |-> "live"]]

\* the handler answers 400 without calling the service
Reject(w) ==
    /\ ncalls' = ncalls + 1
    /\ pc' = [pc EXCEPT ![w] = "rejected"]
    /\ UNCHANGED <<store, hist, seqs, op, input, ctx, arg, tx, err, result>>

\* OrderHandler.CreateOrder up to its call of the service; c is the state of
\* the fasthttp request context
HandlerCreateOrder(w, body, c) ==
    /\ Idle(w)
    /\ Receive(w, "CreateOrder", body)
    /\ LET r == BodyParser(body)
       IN IF r.err # Nil THEN Reject(w)
          ELSE SvcCreateOrder(w, r.input, c)

\* OrderHandler.GetOrder up to its call of the service
HandlerGetOrder(w, id, c) ==
    /\ Idle(w)
    /\ Receive(w, "GetOrder", id)
    /\ IF id = "" THEN Reject(w)
       ELSE LET r == Atoi(id)
            IN IF r.err # Nil THEN Reject(w)
               ELSE SvcGetOrderById(w, r.n, c)

\* the user context the middleware attached to the request ends: the request
\* timeout elapses, or the application context is cancelled
UserCtxEnd(w, c) ==
    /\ request[w] # NoRequest
    /\ pc[w] \notin {"idle", "ret", "rejected"}
    /\ request[w].userCtx = "live"
    /\ request' = [request EXCEPT ![w].userCtx = c]
    /\ UNCHANGED <<store, hist, seqs, ncalls, pc, op, input, ctx, arg, tx,
                   err, result>>

\* the status an order handler answers the request of worker w with
Response(w) ==
    IF pc[w] = "rejected" THEN HttpBadRequest
    ELSE HandlerStatus(op[w], err[w])

\* the handler writes the response; the request is over
Finish(w) ==
    /\ pc[w] \in {"ret", "rejected"}
    /\ pc' = [pc EXCEPT ![w] = "idle"]
    /\ op' = [op EXCEPT ![w] = "none"]
    /\ input' = [input EXCEPT ![w] = <<>>]
    /\ ctx' = [ctx EXCEPT ![w] = "live"]
    /\ arg' = [arg EXCEPT ![w] = NoArg]
    /\ tx' = [tx EXCEPT ![w] = NoTx]
    /\ err' = [err EXCEPT ![w] = Nil]
    /\ result' = [result EXCEPT ![w] = <<>>]
    /\ request' = [request EXCEPT ![w] = NoRequest]
    /\ UNCHANGED <<store, hist, seqs, ncalls>>

Next ==
    \/ \E w \in Workers : CtxEnd(w, Canceled)
    \/ \E w \in Workers : Idle(w) /\ UNCHANGED request
          /\ \E c \in {"live", Canceled} :
                \E in \in ConcCreateInputs : SvcCreateOrder(w, in, c)
    \/ \E w \in Workers : Idle(w) /\ UNCHANGED request
          /\ \E c \in {"live", Canceled} :
                \E in \in ConcUpdateInputs : SvcUpdateOrder(w, in, c)
    \/ \E w \in Workers : Idle(w) /\ UNCHANGED request
          /\ \E c \in {"live", Canceled} :
                \E id \in ConcIds : SvcDeleteOrder(w, id, c)
    \/ \E w \in Workers : Idle(w) /\ UNCHANGED request
          /\ \E c \in {"live", Canceled} :
                \E id \in ConcIds : SvcGetOrderById(w, id, c)
    \/ \E w \in Workers : Idle(w) /\ UNCHANGED request
          /\ \E c \in {"live", Canceled} :
                \E in \in ConcListInputs : SvcListOrders(w, in, c)
    \/ \E w \in Workers : RepoBegin(w)
    \/ \E w \in Workers : RepoInsertOrder(w)
    \/ \E w \in Workers : RepoInsertItem(w)
    \/ \E w \in Workers : RepoUpdate(w)
    \/ \E w \in Workers : RepoDeleteItems(w)
    \/ \E w \in Workers : RepoDeleteOrder(w)
    \/ \E w \in Workers : RepoGetOrder(w)
    \/ \E w \in Workers : RepoGetItems(w)
    \/ \E w \in Workers : RepoListOrders(w)
    \/ \E w \in Workers : RepoListItems(w)
    \/ \E w \in Workers : RepoCommit(w)
    \/ \E w \in Workers : RepoCommitReturn(w)
    \/ \E w \in Workers : Finish(w)

Spec == Init /\ [][Next]_vars

\* one request at a time, with the full range of inputs
NextSeq ==
    \/ CtxEnd(1, Canceled)
    \/ CtxEnd(1, DeadlineExceeded)
    \/ Idle(1) /\ UNCHANGED request /\ \E c \in CtxStates :
          \E in \in CreateInputs : SvcCreateOrder(1, in, c)
    \/ Idle(1) /\ UNCHANGED request /\ \E c \in CtxStates :
          \E in \in UpdateInputs : SvcUpdateOrder(1, in, c)
    \/ Idle(1) /\ UNCHANGED request /\ \E c \in CtxStates :
          \E id \in Ids : SvcDeleteOrder(1, id, c)
    \/ Idle(1) /\ UNCHANGED request /\ \E c \in CtxStates :
          \E id \in Ids : SvcGetOrderById(1, id, c)
    \/ Idle(1) /\ UNCHANGED request /\ \E c \in CtxStates :
          \E in \in ListInputs : SvcListOrders(1, in, c)
    \/ Idle(1) /\ \E c \in {"live", Canceled} :
          \E body \in Bodies : HandlerCreateOrder(1, body, c)
    \/ Idle(1) /\ \E c \in {"live", Canceled} :
          \E id \in RawIds : HandlerGetOrder(1, id, c)
    \/ UserCtxEnd(1, Canceled)
    \/ UserCtxEnd(1, DeadlineExceeded)
    \/ RepoBegin(1)
    \/ RepoInsertOrder(1)
    \/ RepoInsertItem(1)
    \/ RepoUpdate(1)
    \/ RepoDeleteItems(1)
    \/ RepoDeleteOrder(1)
    \/ RepoGetOrder(1)
    \/ RepoGetItems(1)
    \/ RepoListOrders(1)
    \/ RepoListItems(1)
    \/ RepoCommit(1)
    \/ RepoCommitReturn(1)
    \/ Finish(1)

SpecSeq == Init /\ [][NextSeq]_vars

\* the service on its own, over the mock repository of its tests
NextSvc ==
    \/ CtxEnd(1, Canceled)
    \/ CtxEnd(1, DeadlineExceeded)
    \/ Idle(1) /\ UNCHANGED request /\ \E c \in CtxStates :
          \E id \in Ids : SvcGetOrderById(1, id, c)
    \/ MockGetOrderById(1)
    \/ Finish(1)

SpecSvc == Init /\ [][NextSvc]_vars

\* ------------------------------------------------------------ properties
Writes == {"CreateOrder", "UpdateOrder", "DeleteOrder"}

\* the id an UpdateOrder or DeleteOrder of the repository is aimed at
TargetId(w) == IF op[w] = "UpdateOrder" THEN arg[w].order.ID ELSE arg[w].id

ItemIds(l) == {l[k].ID : k \in DOMAIN l}

\* ceil(a / b) over the integers, b > 0
Ceil(a, b) == (a + b - 1) \div b

\* C1: when the insert of an item fails after the order insert succeeded,
\* CreateOrder returns an error and the committed store is what it was before
\* the call: no step of the call up to and including the failing insert
\* changes it, and no row carrying the call's order id or item ids is in it.
C1_CreateAtomicOnItemFailure ==
    [][\A w \in Workers :
         (op[w] = "CreateOrder" /\ pc[w] \in {"begin", "ins_order", "ins_item"})
         => /\ store' = store
            /\ (pc[w] = "ins_item" /\ pc'[w] = "ret")
               => /\ err'[w] # Nil
                  /\ tx[w].insertedOrderID \notin DOMAIN orders'
                  /\ ItemsOf(order_items', tx[w].insertedOrderID) = {}
                  /\ tx[w].insItems \cap order_items' = {}]_vars

\* the second item of an order failed after the first one was inserted
C1_Witness ==
    \E w \in Workers :
        /\ pc[w] = "ret" /\ op[w] = "CreateOrder"
        /\ tx[w].insItems # {} /\ tx[w].i <= Len(arg[w].items)
        /\ ErrorsIs(err[w], StoreErr)
        /\ tx[w].insertedOrderID \notin DOMAIN orders

\* C2: a successful read (whose row streams ran to their end) never shows an
\* order with an item list other than the item set the order was created
\* with.
C2_ReadsSeeWholeOrders ==
    \A w \in Workers :
        (pc[w] = "ret" /\ err[w] = Nil /\ arg[w].kind \in {"get", "list"}
            /\ arg[w].rowsErr = Nil)
        => /\ op[w] = "GetOrderById"
              => ItemIds(result[w].Items) = created[result[w].Order.ID]
           /\ op[w] = "ListOrders"
              => \A k \in DOMAIN result[w].Data :
                    ItemIds(result[w].Data[k].Items) =
                        created[result[w].Data[k].Order.ID]

\* C3: the total the service hands to the repository, and the total_amount
\* that is persisted, equal the sum of price * quantity over the input items.
C3_TotalIsSumOfItems ==
    \A w \in Workers :
        (op[w] = "CreateOrder" /\ arg[w].kind = "create")
        => /\ arg[w].order.TotalAmount = SumItems(input[w].Items)
           /\ (pc[w] = "commit_wait" /\ tx[w].st = "committed")
              => orders[tx[w].insertedOrderID].total_amount =
                    SumItems(input[w].Items)

\* C4: every committed order row's total_amount is the sum of
\* price * quantity over the item rows that reference it.
C4_TotalMatchesItemRows ==
    \A id \in DOMAIN orders :
        orders[id].total_amount = SumSet(ItemsOf(order_items, id))

\* C5: GetOrderById of an id > 0 that has no order row returns an error and
\* the zero value, and unless the context ended or the store failed that
\* error is the no-rows error of the lookup; a nil error comes with the
\* order asked for.
C5_MissingOrderIsAnError ==
    \A w \in Workers :
        (pc[w] = "ret" /\ op[w] = "GetOrderById")
        => /\ (input[w] > 0 /\ input[w] \notin DOMAIN orders)
              => /\ err[w] # Nil
                 /\ result[w] = ZeroOrderWithItems
                 /\ \/ err[w] = <<ErrNoRows>>
                    \/ ErrorsIs(err[w], Canceled)
                    \/ ErrorsIs(err[w], DeadlineExceeded)
                    \/ ErrorsIs(err[w], StoreErr)
           /\ err[w] = Nil
              => result[w].Order.ID = input[w] /\ result[w].Order.ID # 0

C5_Witness ==
    \E w \in Workers :
        /\ pc[w] = "ret" /\ op[w] = "GetOrderById"
        /\ input[w] > 0 /\ input[w] \notin DOMAIN orders
        /\ DOMAIN orders # {}
        /\ err[w] = <<ErrNoRows>>

\* C6: UpdateOrder and DeleteOrder of an id without an order row never get
\* to commit, leave the committed store as it is, and return an error (the
\* not-found error unless the context ended or the store failed) after the
\* transaction was ended without commit.
C6_MissingIdChangesNothing ==
    [][\A w \in Workers :
         (op[w] \in {"UpdateOrder", "DeleteOrder"}
            /\ pc[w] \in {"begin", "upd", "del_items", "del_order"}
            /\ TargetId(w) \notin DOMAIN orders)
         => /\ store' = store
            /\ pc'[w] \notin {"commit", "commit_wait"}
            /\ (pc[w] # "begin" /\ pc'[w] = "ret")
               => /\ err'[w] # Nil
                  /\ tx'[w].st \in {"rolledback", "aborted"}
                  /\ (pc[w] \in {"upd", "del_order"} /\ ctx[w] = "live")
                     => err'[w] = NotFound \/ ErrorsIs(err'[w], StoreErr)]_vars

C6_Witness ==
    \E w \in Workers :
        /\ pc[w] = "ret" /\ op[w] = "DeleteOrder"
        /\ err[w] = NotFound
        /\ tx[w].st = "rolledback"
        /\ DOMAIN orders # {} /\ arg[w].id \notin DOMAIN orders

\* C7: UpdateOrder and DeleteOrder of a missing order are answered by the
\* handler with the missing-resource status, not the server-error status.
C7_MissingOrderAnswered404 ==
    \A w \in Workers :
        (pc[w] = "ret" /\ op[w] \in {"UpdateOrder", "DeleteOrder"}
            /\ err[w] = NotFound)
        => HandlerStatus(op[w], err[w]) = HttpNotFound

\* C8: a write the repository is asked for with a cancelled context opens no
\* transaction, issues no statement, leaves the store unchanged and returns
\* the cancelled error.
C8_CancelledBeforeWrite ==
    [][\A w \in Workers :
         (pc[w] = "begin" /\ ctx[w] = Canceled)
         => /\ store' = store
            /\ pc'[w] \in {"begin", "ret"}
            /\ pc'[w] = "ret"
               => /\ ErrorsIs(err'[w], Canceled)
                  /\ tx'[w].st = "none"
                  /\ seqs' = seqs]_vars

C8_Witness ==
    \E w \in Workers :
        /\ pc[w] = "ret" /\ op[w] \in Writes
        /\ ctx[w] = Canceled
        /\ tx[w].st = "none" /\ arg[w].kind # "none"
        /\ err[w] = <<Canceled>>

\* C9: a write whose context was cancelled after its transaction began and
\* before it returned returns the cancelled error, and none of its writes is
\* committed.
C9_CancelledMidTransaction ==
    \A w \in Workers :
        (pc[w] = "ret" /\ op[w] \in Writes /\ tx[w].st # "none"
            /\ ctx[w] = Canceled)
        => /\ ErrorsIs(err[w], Canceled)
           /\ tx[w].st # "committed"

\* C10: a page ListOrders returns has at most Size orders, TotalPages is
\* ceil(Total / Size), and TotalPages is 0 exactly when Total is 0.
C10_PaginationArithmetic ==
    \A w \in Workers :
        (pc[w] = "ret" /\ op[w] = "ListOrders" /\ err[w] = Nil)
        => /\ Len(result[w].Data) <= result[w].Size
           /\ result[w].TotalPages = Ceil(result[w].Total, result[w].Size)
           /\ result[w].TotalPages = 0 <=> result[w].Total = 0

\* C11: the Total of a successful ListOrders (whose row streams ran to their
\* end) is the number of order rows in the store, whatever page and size.
C11_TotalCountsAllOrders ==
    \A w \in Workers :
        (pc[w] = "ret" /\ op[w] = "ListOrders" /\ err[w] = Nil
            /\ arg[w].rowsErr = Nil)
        => result[w].Total = Cardinality(DOMAIN orders)

\* C12: in a page ListOrders returns, every order is one of the ids the
\* orders query of the call returned, every item under an order carries that
\* order's id, and so no item of an order outside the page is in the result.
C12_ItemsBelongToTheirOrders ==
    \A w \in Workers :
        (pc[w] = "ret" /\ op[w] = "ListOrders" /\ err[w] = Nil)
        => LET data == result[w].Data
               onPage == {data[k].Order.ID : k \in DOMAIN data}
           IN /\ onPage \subseteq {arg[w].orderIDs[k] :
                                      k \in DOMAIN arg[w].orderIDs}
              /\ \A k \in DOMAIN data :
                    \A j \in DOMAIN data[k].Items :
                        /\ data[k].Items[j].OrderID = data[k].Order.ID
                        /\ data[k].Items[j].OrderID \in onPage

\* a page with the items of its order, while another order has items too
C12_Witness ==
    \E w \in Workers :
        /\ pc[w] = "ret" /\ op[w] = "ListOrders" /\ err[w] = Nil
        /\ Len(result[w].Data) = 1
        /\ Len(result[w].Data[1].Items) = 2
        /\ \E r \in order_items : r.order_id # result[w].Data[1].Order.ID

\* the results of ListOrders for a valid page and size on the committed store
ListResults(page, size) ==
    IF Offset(page, size) < 0 THEN {}
    ELSE UNION {LET rows == Window(s, size, Offset(page, size))
                IN IF rows = <<>>
                   THEN {[Data |-> <<>>, DataNil |-> FALSE, Total |-> 0,
                          Page |-> page, Size |-> size, TotalPages |-> 0]}
                   ELSE {[Data |-> data, DataNil |-> FALSE,
                          Total |-> Cardinality(DOMAIN orders),
                          Page |-> page, Size |-> size,
                          TotalPages |->
                              TotalPages(Cardinality(DOMAIN orders), size)] :
                         data \in Assemble(rows,
                                     [id \in DOMAIN orders |-> ScanOrder(id)])}
                : s \in OrderedIds}

\* C13: the service hands page and size to the repository as they came, and
\* a successful ListOrders returns what the call with page 1 in place of a
\* page < 1, and size 10 in place of a size < 1, returns (Page and Size
\* fields included), each replacement independent of the other.
C13_ListNormalization ==
    \A w \in Workers :
        op[w] = "ListOrders"
        => /\ pc[w] = "list_orders"
              => arg[w].Page = input[w].Page /\ arg[w].Size = input[w].Size
           /\ (pc[w] = "ret" /\ err[w] = Nil /\ arg[w].rowsErr = Nil)
              => result[w] \in
                    ListResults(IF input[w].Page < 1 THEN 1
                                ELSE input[w].Page,
                                IF input[w].Size < 1 THEN 10
                                ELSE input[w].Size)

C13_Witness ==
    \E w \in Workers :
        /\ pc[w] = "ret" /\ op[w] = "ListOrders" /\ err[w] = Nil
        /\ input[w].Page < 1 /\ input[w].Size < 1
        /\ result[w].Page = 1 /\ result[w].Size = 10
        /\ Len(result[w].Data) = 2

\* C14: once DeleteOrder(id) has returned success, no order row and no item
\* row of that id is in the store, and the order query of every later
\* GetOrderById(id) ends the call with an error and the zero value: the
\* no-rows error, unless the store fails or the context has ended.
C14_DeletedStaysGone ==
    [][/\ \A id \in deleted' :
             id \notin DOMAIN orders' /\ ItemsOf(order_items', id) = {}
       /\ \A w \in Workers :
            (pc[w] = "get_order" /\ arg[w].id \in deleted
                /\ pc'[w] # pc[w])
            => /\ pc'[w] = "ret"
               /\ err'[w] # Nil
               /\ result'[w] = ZeroOrderWithItems
               /\ ctx[w] = "live"
                  => err'[w] = <<ErrNoRows>> \/ ErrorsIs(err'[w], StoreErr)]_vars

C14_Witness ==
    \E w \in Workers :
        /\ pc[w] = "ret" /\ op[w] = "GetOrderById"
        /\ input[w] \in deleted /\ created[input[w]] # {}
        /\ err[w] = <<ErrNoRows>>

\* an input OrderService.CreateOrder has to reject
InvalidCreate(in) ==
    \/ in.CustomerName = ""
    \/ Len(in.Items) = 0
    \/ \E k \in DOMAIN in.Items :
          in.Items[k].Quantity <= 0 \/ in.Items[k].Price < 0

\* C15: CreateOrder with an empty name, no items, an item of quantity <= 0 or
\* an item of price < 0, and GetOrderById with id <= 0 on a live context,
\* return an error at once: no repository operation is invoked, no
\* transaction begun, store and sequences are left as they are.
C15_ValidationNeverReachesStore ==
    [][\A w \in Workers :
         (pc[w] = "idle" /\ pc'[w] # "idle"
            /\ \/ op'[w] = "CreateOrder" /\ InvalidCreate(input'[w])
               \/ op'[w] = "GetOrderById" /\ input'[w] <= 0
                     /\ ctx'[w] = "live")
         => /\ pc'[w] = "ret"
            /\ err'[w] # Nil
            /\ arg'[w] = NoArg /\ tx'[w] = NoTx
            /\ store' = store /\ seqs' = seqs]_vars

\* the second item is the invalid one
C15_Witness ==
    \E w \in Workers :
        /\ pc[w] = "ret" /\ op[w] = "CreateOrder"
        /\ Len(input[w].Items) = 2
        /\ input[w].Items[1].Quantity > 0 /\ input[w].Items[1].Price >= 0
        /\ input[w].Items[2].Price < 0
        /\ err[w] # Nil /\ arg[w] = NoArg
        /\ DOMAIN orders # {}

\* C16: what CreateOrder hands to the repository and what is persisted
\* depend on the customer name and the items of the input only; the
\* TotalAmount and Status of the input have no part in it, and the persisted
\* status is pending.
C16_DerivedFieldsIgnored ==
    \A w \in Workers :
        (op[w] = "CreateOrder" /\ arg[w].kind = "create")
        => /\ arg[w].order.CustomerName = input[w].CustomerName
           /\ arg[w].order.TotalAmount = SumItems(input[w].Items)
           /\ arg[w].order.Status = StatusPending
           /\ Len(arg[w].items) = Len(input[w].Items)
           /\ \A k \in DOMAIN arg[w].items :
                 /\ arg[w].items[k].Quantity = input[w].Items[k].Quantity
                 /\ arg[w].items[k].Price = input[w].Items[k].Price
           /\ (pc[w] = "commit_wait" /\ tx[w].st = "committed")
              => LET row == orders[tx[w].insertedOrderID]
                 IN /\ row.customer_name = input[w].CustomerName
                    /\ row.total_amount = Round2(SumItems(input[w].Items))
                    /\ row.status = StatusPending
                    /\ {<<r.quantity, r.price>> :
                          r \in ItemsOf(order_items, tx[w].insertedOrderID)}
                       = {<<input[w].Items[k].Quantity,
                            Round2(input[w].Items[k].Price)>> :
                          k \in DOMAIN input[w].Items}

C16_Witness ==
    \E w \in Workers :
        /\ op[w] = "CreateOrder" /\ pc[w] = "commit_wait"
        /\ tx[w].st = "committed"
        /\ input[w].Status = StatusCompleted
        /\ input[w].TotalAmount # SumItems(input[w].Items)
        /\ orders[tx[w].insertedOrderID].status = StatusPending

C18_UpdateFrame ==
    [][\A w \in Workers :
         (op[w] = "UpdateOrder" /\ pc'[w] # pc[w] /\ pc[w] # "ret")
         => IF pc[w] = "commit" /\ pc'[w] = "commit_wait"
            THEN LET id == input[w].ID
                 IN /\ id \in DOMAIN orders
                    /\ DOMAIN orders' = DOMAIN orders
                    /\ \A k \in DOMAIN orders \ {id} : orders'[k] = orders[k]
                    /\ orders'[id] =
                          [orders[id] EXCEPT !.status = input[w].Status,
                                             !.updated_at =
                                                 arg[w].order.UpdatedAt]
                    /\ order_items' = order_items
            ELSE store' = store]_vars

C18_Witness ==
    \E w \in Workers :
        /\ pc[w] = "ret" /\ op[w] = "UpdateOrder" /\ err[w] = Nil
        /\ Cardinality(DOMAIN orders) = 2
        /\ orders[input[w].ID].status = input[w].Status
        /\ orders[input[w].ID].updated_at # ZeroTime
        /\ orders[input[w].ID].customer_name # input[w].CustomerName
        /\ orders[input[w].ID].total_amount # input[w].TotalAmount

\* C19: DeleteOrder deletes the items, then the order, and neither deletion
\* reaches the committed store before the commit; a call that ends without
\* commit leaves the store as it was, so in every committed state an order
\* row has all the item rows it was created with.
C19_DeleteAllOrNothing ==
    [][/\ \A w \in Workers :
            (op[w] = "DeleteOrder" /\ pc'[w] # pc[w]
                /\ pc[w] \in {"begin", "del_items", "del_order"})
            => /\ store' = store
               /\ pc[w] = "begin" => pc'[w] \in {"del_items", "ret"}
               /\ pc[w] = "del_items" => pc'[w] \in {"del_order", "ret"}
               /\ pc[w] = "del_order" => pc'[w] \in {"commit", "ret"}
               /\ pc'[w] = "ret"
                  => err'[w] # Nil /\ tx'[w].st # "committed"
       /\ \A id \in DOMAIN orders' :
            {r.id : r \in ItemsOf(order_items', id)} = created'[id]]_vars

\* the delete of the order failed after the items were deleted
C19_Witness ==
    \E w \in Workers :
        /\ pc[w] = "ret" /\ op[w] = "DeleteOrder" /\ err[w] # Nil
        /\ tx[w].delItems # {} /\ tx[w].delOrders = {}
        /\ tx[w].st \in {"rolledback", "aborted"}
        /\ arg[w].id \in DOMAIN orders
        /\ {r.id : r \in ItemsOf(order_items, arg[w].id)} = tx[w].delItems

\* C20: the status of every committed order row is one of pending,
\* processing, completed, cancelled.
C20_ClosedStatusSet ==
    \A id \in DOMAIN orders : orders[id].status \in Status

\* C21: in every committed state every item row references an order row that
\* exists.
C21_ItemsReferenceAnOrder ==
    \A r \in order_items : r.order_id \in DOMAIN orders

\* one order and its items were deleted, another order still has its items
C21_Witness ==
    \E w \in Workers :
        /\ op[w] = "DeleteOrder" /\ tx[w].st = "committed"
        /\ tx[w].delItems # {}
        /\ order_items # {}
        /\ \A r \in order_items : r.id \notin tx[w].delItems

\* C22: the created_at and updated_at CreateOrder persists for the order row
\* and for each of its item rows are times of the write, not the zero time
\* and not the timestamps of the input.
C22_TimestampsWriterSet ==
    \A w \in Workers :
        (op[w] = "CreateOrder" /\ pc[w] = "commit_wait"
            /\ tx[w].st = "committed")
        => /\ orders[tx[w].insertedOrderID].created_at \in Times
           /\ orders[tx[w].insertedOrderID].updated_at \in Times
           /\ \A r \in ItemsOf(order_items, tx[w].insertedOrderID) :
                 r.created_at \in Times /\ r.updated_at \in Times

\* C23: ListOrders(page 1, size 10) on a store without orders, when it
\* succeeds, returns the empty, non-nil Data with Total 0, Page 1, Size 10 and
\* TotalPages 0; it fails only when the context has ended or the store fails.
C23_EmptyStoreListing ==
    \A w \in Workers :
        (pc[w] = "ret" /\ op[w] = "ListOrders" /\ orders = <<>>
            /\ input[w] = [Page |-> 1, Size |-> 10])
        => IF err[w] = Nil
           THEN result[w] = [Data |-> <<>>, DataNil |-> FALSE, Total |-> 0,
                             Page |-> 1, Size |-> 10, TotalPages |-> 0]
           ELSE \/ ErrorsIs(err[w], Canceled)
                \/ ErrorsIs(err[w], DeadlineExceeded)
                \/ ErrorsIs(err[w], StoreErr)

C23_Witness ==
    \E w \in Workers :
        /\ pc[w] = "ret" /\ op[w] = "ListOrders" /\ orders = <<>>
        /\ input[w] = [Page |-> 1, Size |-> 10]
        /\ err[w] = Nil /\ ctx[w] = "live"
        /\ result[w].Data = <<>> /\ ~result[w].DataNil

\* C24: a CreateOrder request whose input the service rejects as invalid is
\* answered with a status of the 400 class.
C24_ValidationAnswered400 ==
    \A w \in Workers :
        (pc[w] = "ret" /\ request[w].handler = "CreateOrder"
            /\ InvalidCreate(input[w]) /\ arg[w] = NoArg)
        => Response(w) \in 400..499

\* C25: a CreateOrder request whose body cannot be parsed, and a GetOrder
\* request whose id is no number, are answered with 400, and no service
\* operation is invoked for them.
C25_HandlerGuards ==
    \A w \in Workers :
        (\/ request[w].handler = "CreateOrder" /\ ~request[w].raw.json
         \/ request[w].handler = "GetOrder" /\ request[w].raw = "abc")
        => /\ pc[w] = "rejected"
           /\ Response(w) = HttpBadRequest
           /\ op[w] = "none" /\ input[w] = <<>>
           /\ arg[w] = NoArg /\ tx[w] = NoTx /\ err[w] = Nil

C25_Witness ==
    \E w \in Workers :
        /\ request[w].handler = "GetOrder" /\ request[w].raw = "abc"
        /\ pc[w] = "rejected"
        /\ DOMAIN orders # {}

\* C26: while a request is served, the context its service call runs with is
\* the user context the middleware attached to the request: once that one is
\* past its deadline or cancelled, the context of the service call and of its
\* database calls has ended as well.
C26_RequestContextPropagates ==
    \A w \in Workers :
        (request[w] # NoRequest /\ pc[w] \notin {"idle", "rejected"}
            /\ request[w].userCtx # "live")
        => ctx[w] # "live"

\* C27: when a write returns after its transaction was begun, one
\* transaction-ending call was executed for it: either Commit or Rollback,
\* not both and not none.
C27_OneEndingCall ==
    \A w \in Workers :
        (pc[w] = "ret" /\ op[w] \in Writes /\ tx[w].st # "none")
        => (tx[w].commit # "none") # (tx[w].rollback # "none")

\* C28: the rollback of a write that failed because its context was
\* cancelled or past its deadline is issued with a context that has not
\* ended.
C28_RollbackWithLiveContext ==
    \A w \in Workers :
        (pc[w] = "ret" /\ op[w] \in Writes /\ tx[w].commit = "none"
            /\ tx[w].rollback # "none"
            /\ (ErrorsIs(err[w], Canceled)
                   \/ ErrorsIs(err[w], DeadlineExceeded)))
        => tx[w].rollbackCtx = "live"

\* the errors a write can fail with at the database call it is about to make
Cause(w) ==
    LET text == CASE pc[w] = "ins_order" -> "failed to insert order"
                  [] pc[w] = "ins_item" -> "failed to insert order item"
                  [] pc[w] = "upd" -> "failed to update order"
                  [] pc[w] = "del_items" -> "failed to delete order items"
                  [] pc[w] = "del_order" -> "failed to delete order"
                  [] OTHER -> "failed to commit transaction"
    IN IF ctx[w] # "live" THEN {<<ctx[w]>>}
       ELSE {<<text, StoreErr>>} \cup
            (IF pc[w] \in {"upd", "del_order"} THEN {NotFound} ELSE {})

\* C29: a write that fails with an error and whose rollback fails as well
\* returns that error: the context's error as it is, the store's error
\* wrapped by the step's text, or the not-found error; not the rollback's
\* error and not nil.
C29_RollbackFailureKeepsCause ==
    [][\A w \in Workers :
         (op[w] \in Writes /\ pc[w] # "ret" /\ pc'[w] = "ret"
            /\ tx'[w].rollback = "failed")
         => err'[w] \in Cause(w)]_vars

\* the insert of an item was cut by the cancelled context, and so was the
\* rollback
C29_Witness ==
    \E w \in Workers :
        /\ pc[w] = "ret" /\ op[w] = "CreateOrder"
        /\ tx[w].insItems # {} /\ tx[w].commit = "none"
        /\ tx[w].rollback = "failed" /\ tx[w].rollbackCtx = Canceled
        /\ err[w] = <<Canceled>>

\* the position of a request in its operation
Rank(p) ==
    CASE p = "idle" -> 0
      [] p = "begin" -> 1
      [] p \in {"ins_order", "upd", "del_items"} -> 2
      [] p \in {"ins_item", "del_order"} -> 3
      [] p = "commit" -> 4
      [] p = "commit_wait" -> 5
      [] OTHER -> 6

\* C30: a write never goes back to a step it has passed: the transaction is
\* begun once, every statement issued once (an item insert once per item),
\* the commit sent once, whatever fails; the commit of a CreateOrder adds
\* exactly one order row, the one of the id drawn by its insert.
C30_NoRetries ==
    [][\A w \in Workers :
         op[w] \in Writes
         => /\ (pc'[w] # pc[w] /\ pc[w] # "ret") => Rank(pc'[w]) > Rank(pc[w])
            /\ (pc'[w] = pc[w] /\ tx'[w] # tx[w])
               => pc[w] = "ins_item" /\ tx'[w].i = tx[w].i + 1
            /\ (op[w] = "CreateOrder" /\ pc[w] = "commit"
                  /\ pc'[w] = "commit_wait")
               => DOMAIN orders' = DOMAIN orders \cup {tx[w].insertedOrderID}
            /\ (nextOrderId' # nextOrderId /\ pc'[w] # pc[w])
               => nextOrderId' = nextOrderId + 1 /\ pc[w] = "ins_order"]_vars

\* the answer to COMMIT was lost: the call reports the error, the order is in
\* the store once
C30_Witness ==
    \E w \in Workers :
        /\ pc[w] = "ret" /\ op[w] = "CreateOrder"
        /\ tx[w].st = "committed" /\ ErrorsIs(err[w], StoreErr)
        /\ ncalls = 1 /\ DOMAIN orders = {1} /\ nextOrderId = 2

\* C31: a ListOrders call that returns a page has issued one query when the
\* page holds no order and two queries when it holds orders, however many;
\* no ListOrders call issues more than two queries.
C31_FanOutQueryCount ==
    \A w \in Workers :
        (pc[w] = "ret" /\ op[w] = "ListOrders")
        => /\ arg[w].queries \in {1, 2}
           /\ err[w] = Nil
                 => arg[w].queries = IF result[w].Data = <<>> THEN 1 ELSE 2

\* a page of two orders with their items, built with two queries
C31_Witness ==
    \E w \in Workers :
        /\ pc[w] = "ret" /\ op[w] = "ListOrders" /\ err[w] = Nil
        /\ Len(result[w].Data) = 2
        /\ \A k \in 1..2 : Len(result[w].Data[k].Items) >= 1
        /\ arg[w].queries = 2

\* the ids of the orders of a page, in the order of the page
DataIds(data) == [k \in DOMAIN data |-> data[k].Order.ID]

\* C32: the orders of a page ListOrders returns are, position by position,
\* the ids the orders query of the call returned: none twice, none left out,
\* and created_at never grows along the page.
C32_PagePreservesQueryOrder ==
    \A w \in Workers :
        (pc[w] = "ret" /\ op[w] = "ListOrders" /\ err[w] = Nil)
        => LET data == result[w].Data
           IN /\ DataIds(data) = arg[w].orderIDs
              /\ \A a, b \in DOMAIN data :
                    a < b => /\ data[a].Order.ID # data[b].Order.ID
                             /\ data[a].Order.CreatedAt
                                   >= data[b].Order.CreatedAt

\* the orders query returned the later order first, and so does the page
C32_Witness ==
    \E w \in Workers :
        /\ pc[w] = "ret" /\ op[w] = "ListOrders" /\ err[w] = Nil
        /\ arg[w].orderIDs = <<2, 1>>
        /\ DataIds(result[w].Data) = <<2, 1>>
        /\ \A k \in 1..2 : Len(result[w].Data[k].Items) >= 1

\* C33: whichever way the repository tells OrderService.GetOrderById that
\* there is no order, with an error or with the zero order and a nil error,
\* the service returns an error (the repository's own, or "order not found")
\* and the zero value; it returns success only with the order the repository
\* gave, whose ID is not 0.
C33_MissingOrderNormalized ==
    \A w \in Workers :
        (pc[w] = "ret" /\ op[w] = "GetOrderById" /\ arg[w].kind = "get"
            /\ "answer" \in DOMAIN arg[w])
        => LET a == arg[w].answer
           IN /\ a.err # Nil
                    => err[w] = a.err /\ result[w] = ZeroOrderWithItems
              /\ (a.err = Nil /\ a.order.Order.ID = 0)
                    => /\ err[w] = NewError("order not found")
                       /\ result[w] = ZeroOrderWithItems
              /\ err[w] = Nil
                    => result[w] = a.order /\ result[w].Order.ID # 0

\* the repository answered the zero order with a nil error
C33_Witness ==
    \E w \in Workers :
        /\ pc[w] = "ret" /\ op[w] = "GetOrderById" /\ arg[w].kind = "get"
        /\ "answer" \in DOMAIN arg[w]
        /\ arg[w].answer = [order |-> ZeroOrderWithItems, err |-> Nil]
        /\ err[w] = NewError("order not found")
        /\ result[w] = ZeroOrderWithItems

\* C34: OrderService.GetOrderById called with a context that is cancelled or
\* past its deadline returns at once the error of the context and the zero
\* value, for every id, an id <= 0 included, without calling the repository
\* and without touching the store.
C34_DoneContextShortCircuit ==
    [][\A w \in Workers :
         (pc[w] = "idle" /\ op'[w] = "GetOrderById" /\ ctx'[w] # "live")
         => /\ pc'[w] = "ret"
            /\ err'[w] = <<ctx'[w]>>
            /\ result'[w] = ZeroOrderWithItems
            /\ arg'[w] = NoArg
            /\ UNCHANGED <<store, seqs>>]_vars

\* the id is 0 and the deadline has passed: the call answers the deadline
C34_Witness ==
    \E w \in Workers :
        /\ pc[w] = "ret" /\ op[w] = "GetOrderById" /\ input[w] = 0
        /\ ctx[w] = DeadlineExceeded /\ err[w] = <<DeadlineExceeded>>
        /\ arg[w] = NoArg /\ result[w] = ZeroOrderWithItems

\* C35: CreateOrder returns nil exactly when its order row and its item rows
\* are committed: a call that returns an error has left none of them in the
\* store.
C35_ResultAgreesWithStore ==
    \A w \in Workers :
        (pc[w] = "ret" /\ op[w] = "CreateOrder")
        => (err[w] = Nil
              <=> /\ tx[w].insertedOrderID \in DOMAIN orders
                  /\ tx[w].insItems # {}
                  /\ tx[w].insItems \subseteq order_items)

\* C36: a read that returns a nil error returns what the store holds: a
\* GetOrderById all the item rows of its order, a ListOrders one of the
\* results of its page and size on the store, never a part of the rows.
C36_NoTruncatedSuccess ==
    \A w \in Workers :
        (pc[w] = "ret" /\ err[w] = Nil)
        => /\ op[w] = "GetOrderById"
                 => ItemIds(result[w].Items) =
                       {r.id : r \in ItemsOf(order_items,
                                             result[w].Order.ID)}
           /\ op[w] = "ListOrders"
                 => result[w] \in ListResults(arg[w].Page, arg[w].Size)

\* the ids the orders query of ListOrders can return for page p and size s
PageIds(p, s) ==
    {LET rows == Window(q, s, Offset(p, s))
     IN {rows[k] : k \in DOMAIN rows} : q \in OrderedIds}

\* C37: on every store, for every size s >= 1, whatever the orders queries
\* of the pages 1..ceil(N/s) return, no order is on two of the pages and
\* every order is on one.
C37_PagesPartitionOrders ==
    \A s \in {z \in Sizes : z >= 1} :
        LET n == Ceil(Cardinality(DOMAIN orders), s)
        IN /\ \A p1, p2 \in 1..n :
                 p1 # p2 => \A a \in PageIds(p1, s), b \in PageIds(p2, s) :
                               a \cap b = {}
           /\ \A f \in [1..n -> SUBSET DOMAIN orders] :
                 (\A p \in 1..n : f[p] \in PageIds(p, s))
                 => UNION {f[p] : p \in 1..n} = DOMAIN orders

\* C38: of two DeleteOrder calls on the same id that have both returned
\* with success or not-found, at least one of which found the item rows of
\* the order, exactly one returned success, and no row of the order is left.
C38_ConcurrentDeletes ==
    \A w1, w2 \in Workers :
        (/\ w1 # w2
         /\ \A w \in {w1, w2} :
               /\ pc[w] = "ret" /\ op[w] = "DeleteOrder"
               /\ arg[w].kind # "none"
               /\ err[w] \in {Nil, NotFound}
         /\ arg[w1].id = arg[w2].id
         /\ tx[w1].delItems # {})
        => /\ (err[w1] = Nil) # (err[w2] = Nil)
           /\ arg[w1].id \notin DOMAIN orders
           /\ ItemsOf(order_items, arg[w1].id) = {}

\* one call deleted order 1, the other one, which began its transaction too,
\* found nothing to delete
C38_Witness ==
    \E w1, w2 \in Workers :
        /\ w1 # w2
        /\ \A w \in {w1, w2} : pc[w] = "ret" /\ op[w] = "DeleteOrder"
        /\ err[w1] = Nil /\ tx[w1].delItems # {} /\ tx[w1].commit = "ok"
        /\ err[w2] = NotFound /\ tx[w2].rollback # "none"
        /\ 1 \in DOMAIN created /\ orders = <<>> /\ order_items = {}

\* C39: the order id of a CreateOrder in flight is the id of no other order,
\* committed or in flight; every item row it writes carries that id; and
\* when it returns success the items created with its order are the rows it
\* wrote, one for each item of its input, with that item's quantity and
\* price.
C39_CreatesDoNotMix ==
    \A w \in Workers :
        (op[w] = "CreateOrder" /\ tx[w].insOrder # <<>>)
        => LET id == tx[w].insertedOrderID
           IN /\ \A v \in Workers \ {w} :
                    tx[v].insOrder # <<>> => tx[v].insertedOrderID # id
              /\ tx[w].st = "open" => id \notin DOMAIN created
              /\ \A r \in tx[w].insItems : r.order_id = id
              /\ \A v \in Workers \ {w} : tx[v].insItems \cap tx[w].insItems = {}
              /\ (pc[w] = "ret" /\ err[w] = Nil)
                    => /\ created[id] = {r.id : r \in tx[w].insItems}
                       /\ Cardinality(tx[w].insItems) = Len(input[w].Items)
                       /\ \A k \in DOMAIN input[w].Items :
                             \E r \in tx[w].insItems :
                                /\ r.quantity = input[w].Items[k].Quantity
                                /\ r.price = Round2(input[w].Items[k].Price)
                       /\ id \in DOMAIN orders
                             => ItemsOf(order_items, id) = tx[w].insItems

\* two creates ran interleaved and both succeeded: the item ids alternate
C39_Witness ==
    \E w1, w2 \in Workers :
        /\ w1 # w2
        /\ \A w \in {w1, w2} :
              pc[w] = "ret" /\ op[w] = "CreateOrder" /\ err[w] = Nil
        /\ {r.id : r \in tx[w1].insItems} = {1, 3}
        /\ {r.id : r \in tx[w2].insItems} = {2, 4}
        /\ DOMAIN orders = {1, 2}

====
